---- MODULE Spec2Model ----
(***************************************************************************)
(* Model of bulletin_assets_with_prune.py: one run is                      *)
(*   process_events (load_manifest, then one loop body per event),         *)
(*   prune_old when --prune is given (selection, then one delete per       *)
(*   candidate), save_manifest.                                            *)
(* The remote repository (files with their revision tokens and the        *)
(* committed manifest.json) persists from one run to the next.             *)
(***************************************************************************)
EXTENDS Integers, Sequences, FiniteSets, TLC

(* ------------------------------ bounds -------------------------------- *)
MaxEvents    == 2      \* longest events.json
MaxRetention == 1      \* largest --retention, in days
MaxElapsed   == 1      \* largest clock advance between two clock reads
DayLen       == 2      \* clock instants in one day

(* ------------------------- strings and times -------------------------- *)
\* The clock counts instants; T0 is the clock at the first run.
T0 == 10

\* now_iso: fixed-width text of an instant (two decimal digits stand for
\* the zero-padded fields of the ISO-8601 text).
now_iso(t) == << (t \div 10) % 10, t % 10 >>

\* the instant a timestamp text denotes
IsoTime(s) == s[1] * 10 + s[2]

\* Python's str < str: lexicographic, a proper prefix is smaller.
RECURSIVE StrLess(_, _)
StrLess(a, b) ==
    IF b = << >> THEN FALSE
    ELSE IF a = << >> THEN TRUE
    ELSE IF Head(a) # Head(b) THEN Head(a) < Head(b)
    ELSE StrLess(Tail(a), Tail(b))

Range(s) == { s[k] : k \in DOMAIN s }

(* ----------------------------- PathNamer ------------------------------ *)
\* A date string is modelled by the token list datestr.strip().split()
\* yields; << >> is the empty (or missing) date.
DateSep     == << "Sat,", "06", "Sep", "2025" >>
DateSep7    == << "Sun,", "07", "Sep", "2025" >>
DateOct     == << "Sun,", "05", "Oct", "2025" >>
DateStatic  == << "Sat,", "06", "Sep", "static" >>
DateGarbage == << "garbage" >>
DateXyz     == << "Sat,", "06", "Xyz", "2025" >>

months == [ Jan |-> "01", Feb |-> "02", Mar |-> "03", Apr |-> "04",
            May |-> "05", Jun |-> "06", Jul |-> "07", Aug |-> "08",
            Sep |-> "09", Oct |-> "10", Nov |-> "11", Dec |-> "12" ]

\* parts[-1] and parts[2] raise IndexError on a short list; the except
\* clause turns that into "undated".  months.get(mon, '00') never raises.
\* The result is the list of folder segments.
month_folder_from_date(parts) ==
    IF Len(parts) < 3 THEN << "undated" >>
    ELSE << parts[Len(parts)],
            IF parts[3] \in DOMAIN months THEN months[parts[3]] ELSE "00" >>

\* slugify(title)[:60] on the titles of the model (all shorter than 60).
slugify(title) ==
    CASE title = "Farmers Market" -> "farmers-market"
      [] title = "farmers market" -> "farmers-market"
      [] title = "!!!"            -> ""
      [] OTHER                    -> ""

\* first 8 hex digits of the MD5 of the source URL
sha8(src) ==
    CASE src = "u1" -> "h1"
      [] src = "u2" -> "h2"
      [] OTHER      -> "h0"

\* rel_path_of with the day of the month in the folder
rel_path_by_day(title, src, date) ==
    LET stem == IF slugify(title) = "" THEN "img" ELSE slugify(title)
    IN  << "img" >> \o month_folder_from_date(date)
          \o (IF Len(date) < 2 THEN << >> ELSE << date[2] >>)
          \o << stem, sha8(src) >>

\* rel_path = img/<subdir>/<stem>-<sha8>.jpg as its list of segments; the
\* last two segments are the two halves of the file name.
rel_path_of(title, src, date) ==
    LET stem == IF slugify(title) = "" THEN "img" ELSE slugify(title)
    IN  << "img" >> \o month_folder_from_date(date) \o << stem, sha8(src) >>

\* fname of a path: its last two segments
fname_of(path) == << path[Len(path) - 1], path[Len(path)] >>

(* ------------------------------ pinning ------------------------------- *)
\* "img/static/" as segments; the trailing slash makes the prefix match
\* whole segments only.
PROTECT_PREFIXES == { << "img", "static" >> }

startswith(path, pref) ==
    /\ Len(path) > Len(pref)
    /\ SubSeq(path, 1, Len(pref)) = pref

is_protected(path) == \E pref \in PROTECT_PREFIXES : startswith(path, pref)

(* ------------------------------ inputs -------------------------------- *)
NoImage == ""             \* ev.get("image") is None or ""
\* events.json entries; the two annotation fields are absent ("" / << >>)
\* in the input.
NoUrl == << >>
Event(t, d, im) == [ title |-> t, date |-> d, image |-> im,
                     image_jpg |-> NoUrl, image_jpg_error |-> "" ]
\* the entries events.json is made of: an event, the same event on
\* another day of the month, in another month, under a date whose last
\* word names the pinned folder, under a date whose month is no month,
\* without a title, under a title without a letter or digit, and without
\* an image
EventPool ==
    { Event("Farmers Market", DateSep,    "u1"),
      Event("Farmers Market", DateSep7,   "u1"),
      Event("Farmers Market", DateOct,    "u1"),
      Event("Farmers Market", DateStatic, "u1"),
      Event("Farmers Market", DateXyz,    "u1"),
      Event("",               DateSep,    "u1"),
      Event("!!!",            DateSep,    "u1"),
      Event("Farmers Market", DateSep,    NoImage) }

PAGES_BASE == "https://LogunLACC.github.io/lacc-bulletin-assets"
public_url(path) == << PAGES_BASE >> \o path

\* what one HTTP exchange can do: the server answers according to the
\* store, answers with an error status, or the transport raises
Resp == { "ok", "status", "exc" }

(* ------------------------- manifest records --------------------------- *)
NoTime == << >>
\* a record of manifest["images"]; dict = FALSE stands for a JSON value
\* that is not an object
Rec(fa, ls, t, s) == [ dict |-> TRUE, first_added |-> fa, last_seen |-> ls,
                       title |-> t, source |-> s ]
BadRec == [ dict |-> FALSE, first_added |-> NoTime, last_seen |-> NoTime,
            title |-> "", source |-> "" ]
NoImages == [ p \in {} |-> BadRec ]

\* a parsed manifest: obj says whether manifest["images"] is an object
EmptyManifest == [ obj |-> TRUE, images |-> NoImages ]

(* ----------------------------- BlobStore ------------------------------ *)
NoSha == ""

\* gh_get_sha on an object that exists or not and whose revision token is
\* cur: gh_headers raises without a token, the transport may raise, a 200
\* carries the token, every other status gives None.
gh_get_sha(exists, cur, tok, r) ==
    IF ~tok \/ r = "exc" THEN [ raised |-> TRUE, sha |-> NoSha ]
    ELSE IF r = "ok" /\ exists THEN [ raised |-> FALSE, sha |-> cur ]
    ELSE [ raised |-> FALSE, sha |-> NoSha ]

\* The contents API accepts a PUT on an existing object only with its
\* current revision token.
PutAccepted(exists, cur, sha) == ~exists \/ sha = cur

\* gh_put_file: TRUE when the object was written, FALSE when it raised
gh_put_file(exists, cur, tok, r1, r2) ==
    LET g == gh_get_sha(exists, cur, tok, r1)
    IN  /\ ~g.raised
        /\ tok
        /\ r2 = "ok"
        /\ PutAccepted(exists, cur, g.sha)

\* gh_delete_file without the dry_run return of lines 89-91
gh_delete_file_live(exists, cur, tok, dry_run, r1, r2) ==
    LET g == gh_get_sha(exists, cur, tok, r1)
    IN  IF g.raised THEN
            [ ret |-> "raise", lookup |-> tok, request |-> FALSE,
              sha |-> NoSha, gone |-> FALSE ]
        ELSE IF g.sha = NoSha THEN
            [ ret |-> "false", lookup |-> TRUE, request |-> FALSE,
              sha |-> NoSha, gone |-> FALSE ]
        ELSE IF r2 = "ok" /\ exists /\ g.sha = cur THEN
            [ ret |-> "true", lookup |-> TRUE, request |-> TRUE,
              sha |-> g.sha, gone |-> TRUE ]
        ELSE
            [ ret |-> "raise", lookup |-> TRUE, request |-> TRUE,
              sha |-> g.sha, gone |-> FALSE ]

\* gh_delete_file without the status test of lines 98-99
gh_delete_file_unchecked(exists, cur, tok, dry_run, r1, r2) ==
    LET g == gh_get_sha(exists, cur, tok, r1)
    IN  IF dry_run THEN
            [ ret |-> "true", lookup |-> FALSE, request |-> FALSE,
              sha |-> NoSha, gone |-> FALSE ]
        ELSE IF g.raised THEN
            [ ret |-> "raise", lookup |-> tok, request |-> FALSE,
              sha |-> NoSha, gone |-> FALSE ]
        ELSE IF g.sha = NoSha THEN
            [ ret |-> "false", lookup |-> TRUE, request |-> FALSE,
              sha |-> NoSha, gone |-> FALSE ]
        ELSE IF r2 = "exc" THEN
            [ ret |-> "raise", lookup |-> TRUE, request |-> TRUE,
              sha |-> g.sha, gone |-> FALSE ]
        ELSE
            [ ret |-> "true", lookup |-> TRUE, request |-> TRUE,
              sha |-> g.sha, gone |-> r2 = "ok" /\ exists /\ g.sha = cur ]

\* gh_delete_file: ret is "true", "false" or "raise"; lookup and request
\* say whether the GET and the DELETE were issued, gone whether the object
\* was removed from the store.
gh_delete_file(exists, cur, tok, dry_run, r1, r2) ==
    LET g == gh_get_sha(exists, cur, tok, r1)
    IN  IF dry_run THEN
            [ ret |-> "true", lookup |-> FALSE, request |-> FALSE,
              sha |-> NoSha, gone |-> FALSE ]
        ELSE IF g.raised THEN
            [ ret |-> "raise", lookup |-> tok, request |-> FALSE,
              sha |-> NoSha, gone |-> FALSE ]
        ELSE IF g.sha = NoSha THEN
            [ ret |-> "false", lookup |-> TRUE, request |-> FALSE,
              sha |-> NoSha, gone |-> FALSE ]
        ELSE IF r2 = "ok" /\ exists /\ g.sha = cur THEN
            [ ret |-> "true", lookup |-> TRUE, request |-> TRUE,
              sha |-> g.sha, gone |-> TRUE ]
        ELSE
            [ ret |-> "raise", lookup |-> TRUE, request |-> TRUE,
              sha |-> g.sha, gone |-> FALSE ]

(* ------------------------------- state -------------------------------- *)
VARIABLES
    pc,             \* where the run is
    run,            \* runs started so far
    token,          \* GITHUB_TOKEN is set
    args,           \* --prune, --retention, --dry-run
    clock,          \* utcnow, in instants
    now,            \* process_events' now
    events,         \* the entries of events.json read so far
    updated_events, \* process_events' output list
    manifest,       \* the in-memory manifest
    seen_paths,     \* process_events' seen_paths
    cutoff_iso,     \* prune_old's cutoff_iso
    to_delete,      \* prune_old's to_delete
    deleted,        \* prune_old's deleted
    plog,           \* what the prune pass did, per kind of effect
    store,          \* the repository's image files: path -> content
    repo_manifest,  \* the repository's manifest.json
    crash,          \* the uncaught exception that ended the run, or ""
    hist,           \* how this run and the previous one went
    env             \* what the surroundings of the runs can do

vars == << pc, run, token, args, clock, now, events, updated_events,
           manifest, seen_paths, cutoff_iso, to_delete, deleted, plog,
           store, repo_manifest, crash, hist, env >>

NoArgs  == [ prune |-> FALSE, retention |-> 0, dry_run |-> FALSE ]
\* loaded: load_manifest returned the repository's manifest.json;
\* sync_ok: every event with an image was uploaded and recorded;
\* prev_ok: the previous run uploaded and recorded every event with an
\* image and saved its manifest;
\* calls: the requests this run has issued outside the contents API, the
\* raw GET of manifest.json ("manifest") and the GET of a source image
\* ("image");
\* saves: the calls of save_manifest in this run
NoHist  == [ loaded |-> FALSE, sync_ok |-> FALSE, prev_ok |-> FALSE,
             calls |-> {}, saves |-> 0 ]
NoLog   == [ candidates |-> {}, lookups |-> {}, absent |-> {},
             requests |-> {}, failed |-> {}, popped |-> {} ]

(* ------------------------ the repository at start --------------------- *)
PStatic == << "img", "static", "logo", "h9" >>
POld    == << "img", "2024", "01", "old-event", "h8" >>
PA      == rel_path_of("Farmers Market", "u1", DateSep)

\* manifest.json as earlier runs left it: a pinned asset and an old asset
\* last seen three instants before T0, one asset last seen two before.
History ==
    (PStatic :> Rec(now_iso(T0 - 4), now_iso(T0 - 3), "Logo", "u9")) @@
    (POld    :> Rec(now_iso(T0 - 4), now_iso(T0 - 3), "Old Event", "u8")) @@
    (PA      :> Rec(now_iso(T0 - 4), now_iso(T0 - 2), "Farmers Market", "u1"))

\* manifest.json in the repository: kind "none" (no such file), "text"
\* (not JSON) or "json"; top says whether the JSON value is an object.
RepoFile(k, t, o, im) ==
    [ kind |-> k, top |-> t, man |-> [ obj |-> o, images |-> im ] ]

InitRepoManifests ==
    { RepoFile("json", TRUE, TRUE, History),
      RepoFile("none", TRUE, TRUE, NoImages),
      RepoFile("text", TRUE, TRUE, NoImages),
      RepoFile("json", FALSE, TRUE, NoImages),
      RepoFile("json", TRUE, FALSE, NoImages),
      RepoFile("json", TRUE, TRUE, [ History EXCEPT ![PA] = BadRec ]),
      RepoFile("json", TRUE, TRUE,
               [ History EXCEPT ![POld].last_seen = NoTime ]) }

Files == (PStatic :> "u9") @@ (POld :> "u8") @@ (PA :> "u1")

\* the files the manifest lists are in the repository, or one has been
\* removed by hand since (manifest drift)
InitStores == { Files, [ p \in { PStatic, PA } |-> Files[p] ] }

\* the lists events.json can hold
EventLists == UNION { [ 1 .. n -> EventPool ] : n \in 0 .. MaxEvents }

\* feed: events.json is some list, possibly another one at each run
\* (AnyList; AnyOf(S) when its entries come from S), or one list that
\* stays unchanged from run to run
AnyOf(S) == [ fixed |-> FALSE, list |-> << >>, from |-> S ]
AnyList  == AnyOf(EventPool)
Fixed(l) == [ fixed |-> TRUE, list |-> l, from |-> EventPool ]
Faults  == { "ok", "fetch", "transcode" }

\* one run, with every failure of the network and of the transcoder
OneRunEnv == [ runs |-> 1, resp |-> Resp, fetch |-> Faults, feed |-> AnyList ]

Start ==
    /\ pc = "idle"
    /\ run = 0
    /\ token \in BOOLEAN
    /\ args = NoArgs
    /\ clock = T0
    /\ now = NoTime
    /\ events = << >>
    /\ updated_events = << >>
    /\ manifest = EmptyManifest
    /\ seen_paths = {}
    /\ cutoff_iso = NoTime
    /\ to_delete = << >>
    /\ deleted = << >>
    /\ plog = NoLog
    /\ store \in InitStores
    /\ repo_manifest \in InitRepoManifests
    /\ crash = ""
    /\ hist = NoHist

Init ==
    /\ Start
    /\ env = OneRunEnv

\* two runs in succession on an unchanged events.json, on a repository
\* that is new or holds the files of its manifest, every download and
\* every request to the repository succeeding
InitRuns ==
    /\ Start
    /\ token
    /\ store = Files
    /\ repo_manifest \in { RepoFile("none", TRUE, TRUE, NoImages),
                            RepoFile("json", TRUE, TRUE, History) }
    /\ \E l \in EventLists :
          env = [ runs |-> 2, resp |-> { "ok" }, fetch |-> { "ok" },
                  feed |-> Fixed(l) ]

\* a weekly event and a monthly one
FreshPool == { Event("Farmers Market", DateSep, "u1"),
               Event("Farmers Market", DateOct, "u1") }

\* two runs in succession on a repository without a manifest.json, with
\* every failure of the network and of the transcoder, events.json being
\* at each run any list of the two events
InitFresh ==
    /\ Start
    /\ token
    /\ store = Files
    /\ repo_manifest = RepoFile("none", TRUE, TRUE, NoImages)
    /\ env = [ runs |-> 2, resp |-> Resp, fetch |-> Faults,
               feed |-> AnyOf(FreshPool) ]

(* ------------------------------- main --------------------------------- *)
\* main, lines 200-210: a run starts; the clock has advanced since the
\* previous run by nothing or by more than the longest retention.
Gaps == { 0, MaxRetention * DayLen + 1 }

StartRun ==
    /\ pc = "idle"
    /\ run < env.runs
    /\ run' = run + 1
    /\ \E d \in Gaps : clock' = clock + (IF run = 0 THEN 0 ELSE d)
    /\ pc' = "load"
    /\ UNCHANGED << token, args, now, events, updated_events, manifest,
                    seen_paths, cutoff_iso, to_delete, deleted, plog, store,
                    repo_manifest, crash, hist, env >>

(* --------------------------- load_manifest ---------------------------- *)
\* load_manifest's return value for the answer r of the raw GET: the
\* parsed JSON value on a 200 whose body parses, {"images": {}} otherwise.
load_manifest(file, r) ==
    IF r = "ok" /\ file.kind = "json" THEN [ top |-> file.top, man |-> file.man ]
    ELSE [ top |-> TRUE, man |-> EmptyManifest ]

\* process_events, lines 124-133.  requests.get is not guarded: a
\* transport error ends the run.  manifest.setdefault raises when the
\* JSON value is not an object.
LoadManifest ==
    /\ pc = "load"
    /\ \E r \in env.resp :
         LET m == load_manifest(repo_manifest, r)
         IN  IF r = "exc" THEN
                 /\ pc' = "crashed" /\ crash' = "load"
                 /\ hist' = [ hist EXCEPT !.calls = @ \cup { "manifest" } ]
                 /\ UNCHANGED << manifest, now >>
             ELSE IF ~m.top THEN
                 /\ pc' = "crashed" /\ crash' = "setdefault"
                 /\ hist' = [ hist EXCEPT !.calls = @ \cup { "manifest" } ]
                 /\ UNCHANGED << manifest, now >>
             ELSE
                 /\ pc' = "sync" /\ crash' = ""
                 /\ manifest' = m.man
                 /\ now' = now_iso(clock)
                 /\ hist' = [ hist EXCEPT
                        !.loaded = (r = "ok" /\ repo_manifest.kind = "json"),
                        !.calls  = @ \cup { "manifest" } ]
    /\ UNCHANGED << run, token, args, clock, events, updated_events,
                    seen_paths, cutoff_iso, to_delete, deleted, plog, store,
                    repo_manifest, env >>

(* --------------------------- process_events --------------------------- *)
\* upsert_record that stamps first_added on every upload
upsert_record_restamp(images, path, nw, title, src) ==
    LET rec == IF path \in DOMAIN images THEN images[path]
               ELSE Rec(nw, NoTime, title, src)
    IN  [ rec EXCEPT !.first_added = nw,
                     !.last_seen = nw,
                     !.title = IF title # "" THEN title ELSE rec.title,
                     !.source = src ]

\* lines 159-163: the record written for path
upsert_record(images, path, nw, title, src) ==
    LET rec == IF path \in DOMAIN images THEN images[path]
               ELSE Rec(nw, NoTime, title, src)
    IN  [ rec EXCEPT !.last_seen = nw,
                     !.title = IF title # "" THEN title ELSE rec.title,
                     !.source = src ]

upsert(images, path, nw, title, src) ==
    [ p \in DOMAIN images \cup { path } |->
        IF p = path THEN upsert_record(images, path, nw, title, src)
        ELSE images[p] ]

\* images.get raises when manifest["images"] is not an object, and
\* rec["last_seen"] = now raises when the record is not an object
upsert_raises(man, path) ==
    \/ ~man.obj
    \/ (path \in DOMAIN man.images /\ ~man.images[path].dict)

\* the exception, if any, raised by lines 144-154 for the outcome f of the
\* fetch and transcode and the answers r1, r2 to gh_put_file's exchanges
upload_error(path, f, tok, st, r1, r2) ==
    IF f # "ok" THEN f
    ELSE IF ~tok THEN "token"
    ELSE IF gh_put_file(path \in DOMAIN st,
                        IF path \in DOMAIN st THEN st[path] ELSE NoSha,
                        tok, r1, r2)
         THEN ""
         ELSE "upload"

\* after_event that records the path before the upload is known to have
\* succeeded
after_event_eager(man, seen, path, nw, title, src, err) ==
    IF upsert_raises(man, path) THEN [ man |-> man, seen |-> seen ]
    ELSE [ man  |-> [ man EXCEPT !.images =
                        upsert(man.images, path, nw, title, src) ],
           seen |-> seen \cup { path } ]

\* the manifest and seen_paths after the loop body of an event with an
\* image: lines 159-164 are reached only when nothing raised before them
\* (err = ""), and the except clause of lines 166-169 touches neither
after_event(man, seen, path, nw, title, src, err) ==
    IF err # "" \/ upsert_raises(man, path) THEN [ man |-> man, seen |-> seen ]
    ELSE [ man  |-> [ man EXCEPT !.images =
                        upsert(man.images, path, nw, title, src) ],
           seen |-> seen \cup { path } ]

\* One iteration of the loop, lines 135-169.
ProcessEvent ==
    /\ pc = "sync"
    /\ Len(events) < MaxEvents
    /\ \E ev \in env.feed.from, f \in env.fetch,
          r1 \in env.resp, r2 \in env.resp :
         LET src   == ev.image
             title == ev.title
             path  == rel_path_of(title, src, ev.date)
             err   == upload_error(path, f, token, store, r1, r2)
             ev_ok == [ ev EXCEPT !.image_jpg = public_url(path) ]
             after == after_event(manifest, seen_paths, path, now, title,
                                  src, err)
         IN  /\ env.feed.fixed =>
                    /\ Len(events) < Len(env.feed.list)
                    /\ ev = env.feed.list[Len(events) + 1]
             /\ events' = Append(events, ev)
             /\ IF src = NoImage THEN
                    /\ updated_events' = Append(updated_events, ev)
                    /\ UNCHANGED << manifest, seen_paths, store, hist >>
                ELSE IF err # "" THEN
                    /\ updated_events' = Append(updated_events,
                           [ ev EXCEPT !.image_jpg_error = err ])
                    /\ manifest' = after.man
                    /\ seen_paths' = after.seen
                    /\ hist' = [ hist EXCEPT !.calls = @ \cup { "image" } ]
                    /\ UNCHANGED store
                ELSE IF upsert_raises(manifest, path) THEN
                    \* ev was annotated and appended before the manifest
                    \* update raised; the handler annotates the same
                    \* object again and appends it a second time
                    /\ store' = (path :> src) @@ store
                    /\ updated_events' = updated_events \o
                         << [ ev_ok EXCEPT !.image_jpg_error = "manifest" ],
                            [ ev_ok EXCEPT !.image_jpg_error = "manifest" ] >>
                    /\ manifest' = after.man
                    /\ seen_paths' = after.seen
                    /\ hist' = [ hist EXCEPT !.calls = @ \cup { "image" } ]
                ELSE
                    /\ store' = (path :> src) @@ store
                    /\ updated_events' = Append(updated_events, ev_ok)
                    /\ manifest' = after.man
                    /\ seen_paths' = after.seen
                    /\ hist' = [ hist EXCEPT !.calls = @ \cup { "image" } ]
    /\ UNCHANGED << pc, run, token, args, clock, now, cutoff_iso, to_delete,
                    deleted, plog, repo_manifest, crash, env >>

\* The command lines of a run.
ArgsSet == { NoArgs } \cup
           { [ prune |-> TRUE, retention |-> r, dry_run |-> d ] :
               r \in 0 .. MaxRetention, d \in BOOLEAN }

\* an output entry of an event that was uploaded and recorded
annotated_ok(e) ==
    e.image = NoImage \/ (e.image_jpg # NoUrl /\ e.image_jpg_error = "")

\* lines 171-174: the list is exhausted and the outputs are written
WriteOutputs ==
    /\ pc = "sync"
    /\ env.feed.fixed => Len(events) = Len(env.feed.list)
    /\ pc' = "written"
    /\ hist' = [ hist EXCEPT !.sync_ok =
                   /\ Len(updated_events) = Len(events)
                   /\ \A k \in DOMAIN updated_events :
                         annotated_ok(updated_events[k]) ]
    /\ UNCHANGED << run, token, args, clock, now, events, updated_events,
                    manifest, seen_paths, cutoff_iso, to_delete, deleted,
                    plog, store, repo_manifest, crash, env >>

\* lines 176 and 210-213: process_events returns the manifest and
\* seen_paths, its other locals are released, and main reads args
Return ==
    /\ pc = "written"
    /\ \E a \in ArgsSet :
         /\ args' = a
         /\ pc' = IF a.prune THEN "select" ELSE "save"
    /\ events' = << >>
    /\ updated_events' = << >>
    /\ UNCHANGED << run, token, clock, now, manifest, seen_paths, cutoff_iso,
                    to_delete, deleted, plog, store, repo_manifest, crash,
                    hist, env >>

(* ----------------------------- prune_old ------------------------------ *)
\* is_candidate without the pin test of lines 185-186
is_candidate_unpinned(path, rec, seen, cutoff) ==
    /\ path \notin seen
    /\ rec.last_seen # NoTime
    /\ StrLess(rec.last_seen, cutoff)

\* is_candidate without "path not in seen_paths"
is_candidate_unseen(path, rec, seen, cutoff) ==
    /\ ~is_protected(path)
    /\ rec.last_seen # NoTime
    /\ StrLess(rec.last_seen, cutoff)

\* is_candidate with <= for <
is_candidate_le(path, rec, seen, cutoff) ==
    /\ ~is_protected(path)
    /\ path \notin seen
    /\ rec.last_seen # NoTime
    /\ (StrLess(rec.last_seen, cutoff) \/ rec.last_seen = cutoff)

\* line 188, after the is_protected test of line 185
is_candidate(path, rec, seen, cutoff) ==
    /\ ~is_protected(path)
    /\ path \notin seen
    /\ rec.last_seen # NoTime
    /\ StrLess(rec.last_seen, cutoff)

\* lines 182-189 on a well-formed manifest
candidates(images, seen, cutoff) ==
    { p \in DOMAIN images : is_candidate(p, images[p], seen, cutoff) }

\* .items() raises when manifest["images"] is not an object, rec.get when
\* a record is not an object
select_raises(man) ==
    \/ ~man.obj
    \/ \E p \in DOMAIN man.images : ~man.images[p].dict

\* the orders in which a dict can list the paths of S
Orders(S) == { q \in [ 1 .. Cardinality(S) -> S ] : Range(q) = S }

\* lines 179-189: the cutoff and the selection loop
PruneSelect ==
    /\ pc = "select"
    /\ \E d \in 0 .. MaxElapsed :
         /\ clock' = clock + d
         /\ cutoff_iso' = now_iso(clock + d - args.retention * DayLen)
    /\ IF select_raises(manifest) THEN
           /\ pc' = "crashed" /\ crash' = "select"
           /\ UNCHANGED << to_delete, plog >>
       ELSE
           /\ pc' = "prune" /\ crash' = ""
           /\ to_delete' \in
                Orders(candidates(manifest.images, seen_paths, cutoff_iso'))
           /\ plog' = [ NoLog EXCEPT !.candidates = Range(to_delete') ]
    /\ UNCHANGED << run, token, args, now, events, updated_events, manifest,
                    seen_paths, deleted, store, repo_manifest, hist, env >>

\* line 196
pop(images, path) == [ p \in DOMAIN images \ { path } |-> images[p] ]

\* one iteration of the loop of lines 192-196, on the next candidate
PruneDelete ==
    /\ pc = "prune"
    /\ to_delete # << >>
    /\ \E r1 \in env.resp, r2 \in env.resp :
         LET path == Head(to_delete)
             ex   == path \in DOMAIN store
             d    == gh_delete_file(ex, IF ex THEN store[path] ELSE NoSha,
                                    token, args.dry_run, r1, r2)
         IN  /\ to_delete' = Tail(to_delete)
             /\ store' = IF d.gone THEN pop(store, path) ELSE store
             /\ pc' = IF d.ret = "raise" THEN "crashed" ELSE "prune"
             /\ crash' = IF d.ret = "raise" THEN "delete" ELSE ""
             /\ deleted' = IF d.ret = "true" THEN Append(deleted, path)
                           ELSE deleted
             /\ manifest' =
                  IF d.ret = "true" /\ ~args.dry_run
                  THEN [ manifest EXCEPT !.images = pop(manifest.images, path) ]
                  ELSE manifest
             /\ plog' = [ plog EXCEPT
                  !.lookups  = IF d.lookup THEN @ \cup { path } ELSE @,
                  !.absent   = IF d.ret = "false" THEN @ \cup { path } ELSE @,
                  !.requests = IF d.request THEN @ \cup { << path, d.sha >> }
                               ELSE @,
                  !.failed   = IF d.ret = "raise" THEN @ \cup { path } ELSE @,
                  !.popped   = IF d.ret = "true" /\ ~args.dry_run
                               THEN @ \cup { path } ELSE @ ]
    /\ UNCHANGED << run, token, args, clock, now, events, updated_events,
                    seen_paths, cutoff_iso, repo_manifest, hist, env >>

\* line 198 and lines 215-218: prune_old returns
PruneDone ==
    /\ pc = "prune"
    /\ to_delete = << >>
    /\ pc' = "save"
    /\ UNCHANGED << run, token, args, clock, now, events, updated_events,
                    manifest, seen_paths, cutoff_iso, to_delete, deleted,
                    plog, store, repo_manifest, crash, hist, env >>

(* --------------------------- save_manifest ---------------------------- *)
ManifestSha == "m"

\* line 221: gh_put_file on manifest.json; its exception is not caught
SaveManifest ==
    /\ pc = "save"
    /\ \E r1 \in env.resp, r2 \in env.resp :
         IF gh_put_file(repo_manifest.kind # "none", ManifestSha, token, r1, r2)
         THEN /\ repo_manifest' =
                   RepoFile("json", TRUE, manifest.obj, manifest.images)
              /\ pc' = "done" /\ crash' = ""
         ELSE /\ pc' = "crashed" /\ crash' = "save"
              /\ UNCHANGED repo_manifest
    /\ hist' = [ hist EXCEPT !.saves = @ + 1 ]
    /\ UNCHANGED << run, token, args, clock, now, events, updated_events,
                    manifest, seen_paths, cutoff_iso, to_delete, deleted,
                    plog, store, env >>

\* the process exits; the repository and the clock remain
Exit ==
    /\ pc \in { "done", "crashed" }
    /\ pc' = "idle"
    /\ args' = NoArgs
    /\ now' = NoTime
    /\ events' = << >>
    /\ updated_events' = << >>
    /\ manifest' = EmptyManifest
    /\ seen_paths' = {}
    /\ cutoff_iso' = NoTime
    /\ to_delete' = << >>
    /\ deleted' = << >>
    /\ plog' = NoLog
    /\ crash' = ""
    /\ hist' = [ NoHist EXCEPT !.prev_ok =
                   pc = "done" /\ hist.sync_ok ]
    /\ UNCHANGED << run, token, clock, store, repo_manifest, env >>

Next ==
    \/ StartRun
    \/ LoadManifest
    \/ ProcessEvent
    \/ WriteOutputs
    \/ Return
    \/ PruneSelect
    \/ PruneDelete
    \/ PruneDone
    \/ SaveManifest
    \/ Exit

Spec == Init /\ [][Next]_vars

SpecRuns == InitRuns /\ [][Next]_vars

SpecFresh == InitFresh /\ [][Next]_vars

(* ============================== claims ================================ *)
\* the paths prune_old selected, returned, popped or asked the store to
\* delete in this run
Pruned ==
    plog.candidates \cup Range(to_delete) \cup Range(deleted)
      \cup plog.popped \cup { q[1] : q \in plog.requests }

\* the prune pass of this run has ended normally
PruneEnded == args.prune /\ pc \in { "save", "done" }

\* C1: prune_old never issues a remote delete for, never removes from the
\* manifest and never returns a path under a protected prefix, whatever
\* its last_seen and whether or not it was seen in this run.
C1_ProtectedNeverPruned ==
    \A p \in Pruned : ~is_protected(p)

\* a live pass has deleted something while a pinned entry older than the
\* cutoff and a pinned entry seen in this run stay in the manifest
C1_Witness ==
    /\ PruneEnded /\ ~args.dry_run /\ plog.popped # {}
    /\ \E p \in DOMAIN manifest.images :
         /\ is_protected(p) /\ p \notin seen_paths
         /\ StrLess(manifest.images[p].last_seen, cutoff_iso)
    /\ \E p \in seen_paths :
         /\ is_protected(p) /\ p \in DOMAIN manifest.images
         /\ StrLess(manifest.images[p].last_seen, cutoff_iso)

\* C2: a path uploaded in this run (a member of seen_paths) is neither
\* deleted from the store nor removed from the manifest nor returned by
\* the prune pass of the same run, for every retention and last_seen.
C2_SeenNeverPruned ==
    \A p \in seen_paths :
        /\ p \notin Pruned
        /\ p \in DOMAIN manifest.images
        /\ p \in DOMAIN store

\* a live pass with retention 0 has deleted something and left a seen,
\* unpinned path whose last_seen is older than the cutoff
C2_Witness ==
    /\ PruneEnded /\ ~args.dry_run /\ args.retention = 0
    /\ plog.popped # {}
    /\ \E p \in seen_paths :
         /\ ~is_protected(p)
         /\ StrLess(manifest.images[p].last_seen, cutoff_iso)

\* the selection loop has just ended: no candidate has been processed
Selected ==
    /\ pc = "prune"
    /\ Len(to_delete) = Cardinality(plog.candidates)
    /\ deleted = << >>

\* the instant prune_old's cutoff denotes
CutoffTime == clock - args.retention * DayLen

\* C3: an unprotected entry not in seen_paths is a candidate if and only
\* if its last_seen is strictly older than cutoff = now - retention days.
C3_StrictlyOlderThanCutoff ==
    Selected =>
        \A p \in DOMAIN manifest.images :
            (~is_protected(p) /\ p \notin seen_paths) =>
                ( p \in plog.candidates <=>
                    /\ manifest.images[p].last_seen # NoTime
                    /\ IsoTime(manifest.images[p].last_seen) < CutoffTime )

\* an entry last seen exactly at the cutoff is left out, and an entry
\* last seen one instant earlier is selected
C3_Witness ==
    /\ Selected
    /\ \E p \in DOMAIN manifest.images, q \in DOMAIN manifest.images :
         /\ ~is_protected(p) /\ p \notin seen_paths
         /\ manifest.images[p].last_seen # NoTime
         /\ IsoTime(manifest.images[p].last_seen) = CutoffTime
         /\ p \notin plog.candidates
         /\ manifest.images[q].last_seen # NoTime
         /\ IsoTime(manifest.images[q].last_seen) = CutoffTime - 1
         /\ q \in plog.candidates

\* C4: a dry-run prune pass leaves the in-memory manifest and the store
\* unchanged and issues neither a revision lookup nor a delete.
C4_DryRunChangesNothing ==
    [][ (args.dry_run /\ pc \in { "select", "prune" }) =>
          /\ manifest' = manifest
          /\ store' = store
          /\ plog'.lookups = {} /\ plog'.requests = {} /\ plog'.popped = {}
      ]_vars

\* a dry-run pass has ended and returned a candidate
C4_Witness ==
    PruneEnded /\ args.dry_run /\ deleted # << >>

\* C5: in a live pass, a candidate whose object is already absent from
\* the store (the revision lookup returns no token) is removed from the
\* in-memory manifest.
C5_AbsentIsRemoved ==
    \A p \in plog.absent :
        (~args.dry_run /\ p \notin DOMAIN store) =>
            p \notin DOMAIN manifest.images

\* C6: in a live pass, a delete that fails for another reason than the
\* object being absent does not end the pass: the remaining candidates
\* are processed and the run reaches save_manifest.
C6_DeleteFailureIsolated ==
    (token /\ ~args.dry_run /\ plog.failed # {}) =>
        /\ crash # "delete"
        /\ (pc \in { "crashed", "save", "done" } => to_delete = << >>)

\* an output entry without the fields the run adds
Stripped(e) == [ e EXCEPT !.image_jpg = NoUrl, !.image_jpg_error = "" ]

\* C7: process_events writes exactly one output entry per input event,
\* in input order, for every combination of per-event failures.
C7_OneOutputPerEvent ==
    pc = "written" =>
        /\ Len(updated_events) = Len(events)
        /\ \A k \in DOMAIN events : Stripped(updated_events[k]) = events[k]

\* C8: in the output, an event with a source image carries exactly one of
\* image_jpg and image_jpg_error, and an event without one carries
\* neither.
C8_ExactlyOneAnnotation ==
    pc = "written" =>
        \A k \in DOMAIN updated_events :
            LET e == updated_events[k]
            IN  IF e.image = NoImage
                THEN e.image_jpg = NoUrl /\ e.image_jpg_error = ""
                ELSE (e.image_jpg # NoUrl) # (e.image_jpg_error # "")

\* the paths the events read in this run resolve to
EventPaths ==
    { rel_path_of(events[k].title, events[k].image, events[k].date) :
        k \in { j \in DOMAIN events : events[j].image # NoImage } }

\* the sync of a run has ended with every upload recorded, on the same
\* event list as the previous run, which saved the manifest this run
\* loaded
Resynced ==
    /\ pc = "written" /\ run > 1
    /\ env.feed.fixed
    /\ hist.prev_ok /\ hist.loaded /\ hist.sync_ok

\* the manifest after the previous run
Before == repo_manifest.man.images

\* C9 as stated: after the second sync the manifest has the same paths,
\* every record keeps its first_added, and every record's last_seen is
\* the second run's timestamp.
C9_EveryRecordAdvanced ==
    Resynced =>
        /\ DOMAIN manifest.images = DOMAIN Before
        /\ \A p \in DOMAIN manifest.images :
             /\ manifest.images[p].first_added = Before[p].first_added
             /\ manifest.images[p].last_seen = now

\* C9, amended: the same paths, every first_added kept; last_seen is the
\* second run's timestamp, not earlier than the first run's, for the
\* paths of the event list, and every other record is unchanged.
C9_ResyncIdempotent ==
    Resynced =>
        /\ DOMAIN manifest.images = DOMAIN Before
        /\ \A p \in DOMAIN manifest.images :
             /\ manifest.images[p].first_added = Before[p].first_added
             /\ IF p \in EventPaths
                THEN /\ manifest.images[p].last_seen = now
                     /\ IsoTime(Before[p].last_seen) <= IsoTime(now)
                ELSE manifest.images[p] = Before[p]

\* a second sync, later than the first, of a list that produces a path,
\* on a manifest that also holds a record of another path
C9_Witness ==
    /\ Resynced
    /\ EventPaths # {}
    /\ \E p \in EventPaths : IsoTime(Before[p].last_seen) < IsoTime(now)
    /\ DOMAIN manifest.images \ EventPaths # {}

\* the path an uploaded output entry was given
PathOf(e) == Tail(e.image_jpg)

\* two uploaded entries of the output with the same title and source URL
SameIdentity(a, b) ==
    /\ a.image # NoImage /\ a.image_jpg # NoUrl
    /\ b.image # NoImage /\ b.image_jpg # NoUrl
    /\ a.title = b.title /\ a.image = b.image

\* C10 as stated: two events with the same title and source URL get the
\* same path, whatever their date strings.
C10_PathIgnoresDate ==
    \A j \in DOMAIN updated_events, k \in DOMAIN updated_events :
        SameIdentity(updated_events[j], updated_events[k]) =>
            PathOf(updated_events[j]) = PathOf(updated_events[k])

\* C10, amended: two events with the same title and source URL get the
\* same file name, and the same path when their date strings resolve to
\* the same folder.
C10_PathIgnoresDay ==
    \A j \in DOMAIN updated_events, k \in DOMAIN updated_events :
        LET a == updated_events[j]
            b == updated_events[k]
        IN  SameIdentity(a, b) =>
              /\ fname_of(PathOf(a)) = fname_of(PathOf(b))
              /\ month_folder_from_date(a.date) = month_folder_from_date(b.date)
                   => PathOf(a) = PathOf(b)

\* two uploaded events with the same title and source URL whose different
\* date strings resolve to the same folder
C10_Witness ==
    \E j \in DOMAIN updated_events, k \in DOMAIN updated_events :
        /\ SameIdentity(updated_events[j], updated_events[k])
        /\ updated_events[j].date # updated_events[k].date
        /\ month_folder_from_date(updated_events[j].date)
             = month_folder_from_date(updated_events[k].date)

\* the repository's manifest.json is a JSON object whose "images" is an
\* object of record objects
Understood(file) ==
    /\ file.kind = "json" /\ file.top /\ file.man.obj
    /\ \A p \in DOMAIN file.man.images : file.man.images[p].dict

\* process_events has loaded the manifest and has not begun the events
JustLoaded == pc = "sync" /\ events = << >>

\* C11: when manifest.json cannot be obtained (transport failure, non-200)
\* or understood (not JSON, or JSON of another shape), the run does not
\* abort in the load and process_events starts from the empty manifest.
C11_LoadFailureGivesEmpty ==
    /\ crash \notin { "load", "setdefault" }
    /\ (JustLoaded /\ ~Understood(repo_manifest)) => manifest = EmptyManifest

\* C12: without GITHUB_TOKEN the run issues no request (no manifest fetch,
\* no source-image fetch), processes no event and writes no
\* image_jpg_error for the missing credential.
C12_NoTokenNoNetwork ==
    ~token =>
        /\ hist.calls = {}
        /\ pc \notin { "sync", "written" }
        /\ \A k \in DOMAIN updated_events :
              updated_events[k].image_jpg_error # "token"

\* the run has ended, normally or by an uncaught exception
RunEnded == pc \in { "done", "crashed" }

\* C13: a run with a credential whose process_events has returned calls
\* save_manifest exactly once before it ends, whatever the per-event and
\* per-candidate steps did; and never more than once.
C13_SavedExactlyOnce ==
    /\ hist.saves <= 1
    /\ (token /\ RunEnded /\ crash \notin { "load", "setdefault", "select" })
          => hist.saves = 1

\* a revision lookup of this pass gave no token for a file the store holds
LookupFaulted == \E p \in plog.absent : p \in DOMAIN store

\* C14: a dry-run pass returns every candidate, so a dry-run pass and a
\* live pass from the same state return the same paths exactly when a
\* pass that ended, every lookup having answered according to the store,
\* returns the candidates selected from that state.
C14_DryReturnsWhatLiveDeletes ==
    (PruneEnded /\ ~LookupFaulted) => Range(deleted) = plog.candidates

\* the folder segments of a path: what lies between "img" and the file name
FolderOf(path) == SubSeq(path, 2, Len(path) - 2)

\* a date of four words whose third is a month abbreviation
WellFormedDate(d) == Len(d) = 4 /\ d[3] \in DOMAIN months

\* C15: the folder of an uploaded event is <year>/<two-digit month> when
\* its date has the four-word form with a known month abbreviation, and
\* "undated" for every other date string.
C15_FolderOrUndated ==
    \A k \in DOMAIN updated_events :
        LET e == updated_events[k]
        IN  (e.image # NoImage /\ e.image_jpg # NoUrl) =>
               FolderOf(PathOf(e)) =
                  IF WellFormedDate(e.date)
                  THEN << e.date[4], months[e.date[3]] >>
                  ELSE << "undated" >>

\* first_added <= last_seen in every record of images
Ordered(images) ==
    \A p \in DOMAIN images :
        IsoTime(images[p].first_added) <= IsoTime(images[p].last_seen)

\* every path of both a and b has the same first_added in both
SameFirstAdded(a, b) ==
    \A p \in DOMAIN a \cap DOMAIN b : a[p].first_added = b[p].first_added

\* C16 as stated: from an empty manifest, every record of the manifest, in
\* memory and as saved, has first_added <= last_seen, and no step changes
\* the first_added of a record that stays in the manifest, in memory or
\* as saved.
C16_FirstAddedNeverChanges ==
    /\ [](Ordered(manifest.images) /\ Ordered(repo_manifest.man.images))
    /\ [][ /\ SameFirstAdded(manifest.images, manifest'.images)
           /\ SameFirstAdded(repo_manifest.man.images,
                             repo_manifest'.man.images) ]_vars

\* C16, amended: first_added <= last_seen always; no step changes the
\* first_added of a record in memory; a save changes the first_added of a
\* saved record only in a run whose load_manifest did not return the
\* saved manifest, and then to that run's timestamp, which is not earlier.
C16_FirstAddedKeptWhenLoaded ==
    /\ [](Ordered(manifest.images) /\ Ordered(repo_manifest.man.images))
    /\ [][ /\ SameFirstAdded(manifest.images, manifest'.images)
           /\ hist.loaded =>
                SameFirstAdded(repo_manifest.man.images,
                               repo_manifest'.man.images)
           /\ \A p \in DOMAIN repo_manifest.man.images
                         \cap DOMAIN repo_manifest'.man.images :
                LET old == repo_manifest.man.images[p].first_added
                    new == repo_manifest'.man.images[p].first_added
                IN  new # old =>
                      new = now /\ IsoTime(old) <= IsoTime(new) ]_vars

\* a second run, later than the first, has loaded the saved manifest,
\* uploaded again a path the first run recorded, and saved
C16_Witness ==
    /\ run = 2 /\ pc = "done" /\ hist.loaded
    /\ \E p \in seen_paths :
         /\ p \in DOMAIN repo_manifest.man.images
         /\ IsoTime(repo_manifest.man.images[p].first_added)
              < IsoTime(repo_manifest.man.images[p].last_seen)
         /\ repo_manifest.man.images[p].last_seen = now

\* the output entry of an event whose fetch, transcode or upload failed:
\* an error annotation and no image_jpg
Failed(e) == e.image_jpg = NoUrl /\ e.image_jpg_error # ""

\* the path the loop body computes for an input or output entry
ProducedPath(e) == rel_path_of(e.title, e.image, e.date)

\* C17: a loop body that ends in the failure of the fetch, the transcode
\* or the upload leaves the in-memory manifest and seen_paths as they
\* were before that event.
C17_FailureLeavesManifest ==
    [][ ( /\ pc = "sync"
          /\ Len(updated_events') = Len(updated_events) + 1
          /\ Failed(updated_events'[Len(updated_events')]) )
        => (manifest' = manifest /\ seen_paths' = seen_paths) ]_vars

\* the upload of an event has failed whose path has a record from an
\* earlier run: the record keeps its old last_seen and the path is not
\* in seen_paths
C17_Witness ==
    /\ pc = "sync" /\ updated_events # << >>
    /\ LET e == updated_events[Len(updated_events)]
       IN  /\ Failed(e) /\ e.image_jpg_error = "upload"
           /\ ProducedPath(e) \in DOMAIN manifest.images
           /\ manifest.images[ProducedPath(e)].dict
           /\ manifest.images[ProducedPath(e)].last_seen # now
           /\ ProducedPath(e) \notin seen_paths

\* C18: gh_get_sha reports an object as absent (returns no token) only
\* when the store does not hold it: every path for which gh_delete_file
\* was told "absent" in this pass is missing from the store.
C18_AbsentMeansMissing ==
    \A p \in plog.absent : p \notin DOMAIN store

\* the output entry of an event that was uploaded and recorded
Uploaded(e) ==
    e.image # NoImage /\ e.image_jpg # NoUrl /\ e.image_jpg_error = ""

\* C19: right after the successful upload of an event, the record at its
\* path has last_seen = now, the event's title and source URL, and the
\* path is in seen_paths.
C19_RecordHoldsCurrentValues ==
    (pc = "sync" /\ updated_events # << >>) =>
        LET e == updated_events[Len(updated_events)]
            p == PathOf(e)
        IN  Uploaded(e) =>
              /\ p \in seen_paths
              /\ p \in DOMAIN manifest.images
              /\ manifest.images[p].last_seen = now
              /\ manifest.images[p].source = e.image
              /\ manifest.images[p].title = e.title

\* the paths a step removes from the in-memory manifest
Dropped == DOMAIN manifest.images \ DOMAIN manifest'.images

\* C20: a step of a live pass removes a record from the in-memory manifest
\* only for the candidate at hand, for which a DELETE carrying the
\* revision token the store holds was issued and removed the file; the
\* record of a candidate whose delete failed or was not attempted stays,
\* and the returned list is the set of removed records.
C20_DroppedOnlyWhenDeleted ==
    [][ (pc = "prune" /\ ~args.dry_run) =>
          /\ \A p \in Dropped :
               /\ p = Head(to_delete)
               /\ p \in DOMAIN store
               /\ << p, store[p] >> \in plog'.requests
               /\ p \notin DOMAIN store'
               /\ p \notin plog'.failed \cup plog'.absent
          /\ \A p \in plog'.failed \cup plog'.absent :
               p \in DOMAIN manifest'.images
          /\ Range(deleted') = plog.popped \cup Dropped
          /\ plog'.popped = plog.popped \cup Dropped ]_vars

\* a live pass has ended that removed one record and kept the record of
\* a candidate whose file the store did not hold
C20_Witness ==
    /\ PruneEnded /\ ~args.dry_run
    /\ plog.popped # {}
    /\ plog.absent # {}
    /\ \A p \in plog.popped : p \notin DOMAIN manifest.images
    /\ \A p \in plog.absent : p \in DOMAIN manifest.images

====
